---- MODULE Spec2Model ----
(***************************************************************************)
(* Model of the Dockerfile generator (src/index.ts, src/index.js).         *)
(*                                                                         *)
(* main() chains four awaited stages: fetchRepoDetails, listRepoFiles,     *)
(* generateDockerfile and writeDockerfile.  Each action below is one turn  *)
(* of the event loop: the settling of one request together with the whole  *)
(* synchronous continuation it wakes, up to the next await.                *)
(*                                                                         *)
(* JavaScript strings are sequences of one-character strings; the fixed    *)
(* parts of the prompt template are single elements.  Other JavaScript     *)
(* values are records tagged by their type.                                *)
(***************************************************************************)
EXTENDS Integers, Sequences, FiniteSets

VARIABLES
    variant,       \* which source file runs: "ts" (index.ts) or "js" (index.js)
    pc,            \* position of main()
    req,           \* state of each named request
    issued,        \* how many times each named request was issued in this run
    fileReq,       \* state of the content request of each listing entry
    fileIssued,    \* how many times each entry's content request was issued
    respData,      \* response bodies of the metadata and README requests
    repoDetails,   \* main's local repoDetails
    listing,       \* listRepoFiles' local files (the directory listing)
    fileContents,  \* the array Promise.all fills, one slot per listing entry
    files,         \* main's local files
    prompt,        \* generateDockerfile's local prompt
    response,      \* the completion response
    dockerfile,    \* main's local dockerfile
    disk,          \* content of ./Dockerfile
    log,           \* what the run printed to the console
    caught,        \* the error main's catch clause received
    cause,         \* history: the underlying failure that started the abort
    failedStage,   \* history: the function whose await rejected
    diskAtStart,   \* history: content of ./Dockerfile when the run started
    lastArtifact,  \* history: dockerfile of the most recent run that logged success
    outOfOrder,    \* history: a content request settled before one of an earlier entry
    writeFailed    \* history: a write has failed since the last successful one

vars == <<variant, pc, req, issued, fileReq, fileIssued, respData, repoDetails,
          listing, fileContents, files, prompt, response, dockerfile, disk, log,
          caught, cause, failedStage, diskAtStart, lastArtifact, outOfOrder,
          writeFailed>>

----------------------------------------------------------------------------
(* Bounds of the model *)

MaxEntries == 3     \* longest directory listing

----------------------------------------------------------------------------
(* JavaScript values *)

Undefined == [t |-> "undefined"]
Null      == [t |-> "null"]
Pending   == [t |-> "pending"]
Str(s)    == [t |-> "string", v |-> s]
Arr(a)    == [t |-> "array", v |-> a]
EmptyObject == [t |-> "object", v |-> <<>>]
ErrorObj(m) == [t |-> "error", message |-> m]

Whitespace == {" ", "\n", "\t"}

Min(a, b) == IF a < b THEN a ELSE b
Max(a, b) == IF a > b THEN a ELSE b

\* Variant of substring that takes end as the index of the last character
substringInclusive(s, start, end) ==
    LET a  == Min(Max(start, 0), Len(s))
        b  == Min(Max(end + 1, 0), Len(s))
    IN  SubSeq(s, Min(a, b) + 1, Max(a, b))

\* String.prototype.substring(start, end): both indices are clamped to
\* [0, length] and swapped when start > end; indices are 0-based, end exclusive.
substring(s, start, end) ==
    LET a  == Min(Max(start, 0), Len(s))
        b  == Min(Max(end, 0), Len(s))
        lo == Min(a, b)
        hi == Max(a, b)
    IN  SubSeq(s, lo + 1, hi)

RECURSIVE trimStart(_)
trimStart(s) ==
    IF s # <<>> /\ Head(s) \in Whitespace THEN trimStart(Tail(s)) ELSE s

RECURSIVE trimEnd(_)
trimEnd(s) ==
    IF s # <<>> /\ s[Len(s)] \in Whitespace
    THEN trimEnd(SubSeq(s, 1, Len(s) - 1))
    ELSE s

\* String.prototype.trim()
trim(s) == trimEnd(trimStart(s))

\* ${value} inside a template literal
interpolate(x) ==
    CASE x.t = "string"    -> x.v
      [] x.t = "null"      -> <<"n", "u", "l", "l">>
      [] x.t = "undefined" -> <<"u", "n", "d", "e", "f", "i", "n", "e", "d">>
      [] OTHER             -> <<"[object Object]">>

\* JSON.stringify on the non-string response bodies of the model
JSONstringify(x) ==
    CASE x.t = "null"   -> <<"n", "u", "l", "l">>
      [] x.t = "object" -> <<"{", "}">>
      [] OTHER          -> <<"\"">> \o x.v \o <<"\"">>

RECURSIVE join(_, _)
\* Array.prototype.join(sep) on an array of strings
join(a, sep) ==
    IF a = <<>> THEN <<>>
    ELSE IF Len(a) = 1 THEN a[1]
    ELSE a[1] \o sep \o join(Tail(a), sep)

RECURSIVE filterNotNull(_)
\* fileContents.filter(file => file !== null)
filterNotNull(a) ==
    IF a = <<>> THEN <<>>
    ELSE IF Head(a) = Null THEN filterNotNull(Tail(a))
    ELSE <<Head(a)>> \o filterNotNull(Tail(a))

----------------------------------------------------------------------------
(* Inputs: what the hosting provider, the completion provider and the      *)
(* filesystem can answer                                                   *)

SubstringLimit == 200

Alphabet == <<"0", "1", "2", "3", "4", "5", "6", "7", "8", "9">>

\* A text of n characters whose character at each position tells the position
Content(n) == [i \in 1..n |-> Alphabet[(i % 10) + 1]]

\* response.data of GET /repos/{owner}/{repo}; description is nullable
RepoBodies ==
    { [name |-> Str(<<"r", "e", "p", "o">>), description |-> d,
       html_url |-> Str(<<"u">>)] :
      d \in {Str(<<"a", " ", "d", "e", "s", "c">>), Null} }

\* response.data of the raw README request
ReadmeBodies == { Str(<<"#", " ", "R", "\n", "t", "x", "t">>) }

\* The entry at position i of a listing; names within a directory are distinct
EntryAt(i) ==
    { [name |-> <<"f", Alphabet[i + 1]>>, type |-> ty] : ty \in {"file", "dir"} }

RECURSIVE ListingsOfLen(_)
ListingsOfLen(n) ==
    IF n = 0 THEN {<<>>}
    ELSE { Append(l, e) : l \in ListingsOfLen(n - 1), e \in EntryAt(n) }

\* response.data of GET /repos/{owner}/{repo}/contents when it is an array
Listings == UNION { ListingsOfLen(n) : n \in 0..MaxEntries }

\* response.data of a download_url: text, or a body axios parsed as JSON
FileBodies ==
    { Str(Content(SubstringLimit + 1)), EmptyObject }

Choice(c) == [message |-> [t |-> "object", content |-> c]]

\* responses of openai.chat.completions.create
Completions ==
    { [choices |-> Undefined],
      [choices |-> Arr(<<>>)],
      [choices |-> Arr(<<[message |-> Undefined]>>)],
      [choices |-> Arr(<<Choice(Null)>>)],
      [choices |-> Arr(<<Choice(Str(<<>>))>>)],
      [choices |-> Arr(<<Choice(Str(<<" ", "\n">>))>>)],
      [choices |-> Arr(<<Choice(Str(<<"F">>)), Choice(Str(<<"X">>))>>)],
      [choices |-> Arr(<<Choice(Str(<<"\n", "F", " ", "G", "\n", " ">>))>>)] }

\* error.message / error.response.status of a rejected axios request; the
\* catch clause of fetchRepoDetails in index.js tells these five apart
HttpCauses == {"404", "403", "500", "no response", "setup"}

\* rejections of the requests whose failures the code does not tell apart
FetchCauses == {"404", "no response"}

\* errors of the completion call itself
ProviderCauses == {"429", "timeout"}

\* errors fs.writeFile passes to its callback
WriteCauses == {"EACCES", "ENOSPC"}

NoFile == [t |-> "absent"]

\* What ./Dockerfile holds after fs.writeFile(path, data) failed with err:
\* the file is opened with flag 'w' (create or truncate) and then written, so
\* a failed open leaves it as it was and a failed write leaves it truncated,
\* holding any proper prefix of data.
FailedWriteLeaves(err, old, data) ==
    IF err = "EACCES" THEN {old}
    ELSE { Str(SubSeq(data, 1, k)) : k \in 0..(Len(data) - 1) }

----------------------------------------------------------------------------
(* generateDockerfile: the prompt *)

PromptHead ==
    "Create a Dockerfile for a project with the following details:\n    - Repository Name: "
PromptDescription == "\n    - Description: "
PromptReadme == "\n    - README Content: "
PromptFiles == "\n    - Files: "
PromptTail(v) ==
    IF v = "ts" THEN "\n\n    Provide a complete and commented Dockerfile."
    ELSE "\n\n    Provide a complete Dockerfile with no comments or explanations. Consider that what you return will be executed as Dockerfile.\n    If you return any commments the Dockerfile will be wrong and will fail "

\* `${file.name}: ${file.content.substring(0, 200)}`
fileLine(file) ==
    file.name \o <<":", " ">> \o substring(file.content, 0, SubstringLimit)

buildPrompt(v, details, fs) ==
    <<PromptHead>> \o interpolate(details.name)
    \o <<PromptDescription>> \o interpolate(details.description)
    \o <<PromptReadme>> \o interpolate(details.readme)
    \o <<PromptFiles>> \o join([i \in 1..Len(fs) |-> fileLine(fs[i])], <<"\n">>)
    \o <<PromptTail(v)>>

----------------------------------------------------------------------------
(* State *)

Named == {"meta", "readme", "list", "completion", "write"}

Terminal == {"success", "failure", "rejected"}

\* The requests fetchRepoDetails passes to its await
DetailsGroup == IF variant = "ts" THEN {"meta", "readme"} ELSE {"meta"}

FreshRun(d) ==
    /\ pc = "init"
    /\ req = [r \in Named |-> "idle"]
    /\ issued = [r \in Named |-> 0]
    /\ fileReq = <<>>
    /\ fileIssued = <<>>
    /\ respData = [meta |-> Undefined, readme |-> Undefined]
    /\ repoDetails = Undefined
    /\ listing = Undefined
    /\ fileContents = <<>>
    /\ files = Undefined
    /\ prompt = Undefined
    /\ response = Undefined
    /\ dockerfile = Undefined
    /\ log = <<>>
    /\ caught = Undefined
    /\ cause = "none"
    /\ failedStage = "none"
    /\ disk = d
    /\ diskAtStart = d
    /\ outOfOrder = FALSE

\* The module has been loaded with both credentials present; main() has not
\* been called yet and ./Dockerfile does not exist.
Init ==
    /\ variant \in {"ts", "js"}
    /\ lastArtifact = Undefined
    /\ writeFailed = FALSE
    /\ FreshRun(NoFile)

----------------------------------------------------------------------------
(* main's catch clause *)

\* Variant of main without its try/catch: any stage error rejects main
mainCatchPcUnguarded(err) == "rejected"

\* console.error('An error occurred:', error.message) reads a property of the
\* caught value, which throws when that value is null or undefined
mainCatchPc(err) == IF err.t \in {"undefined", "null"} THEN "rejected" ELSE "failure"

mainCatchLog(err) ==
    IF err.t \in {"undefined", "null"} THEN <<>>
    ELSE <<<<"An error occurred:", err.message>>>>

\* A stage printed stageLog and rejected with err; main's catch clause runs
Throw(stage, c, stageLog, err) ==
    /\ log' = log \o stageLog \o mainCatchLog(err)
    /\ caught' = err
    /\ cause' = c
    /\ failedStage' = stage
    /\ pc' = mainCatchPc(err)

----------------------------------------------------------------------------
(* main and fetchRepoDetails *)

\* Variant of main that calls listRepoFiles without awaiting fetchRepoDetails
mainEager ==
    /\ pc = "init"
    /\ pc' = "fetchRepoDetails"
    /\ req' = [r \in Named |->
                  IF r \in DetailsGroup \cup {"list"} THEN "pending" ELSE req[r]]
    /\ issued' = [r \in Named |->
                     IF r \in DetailsGroup \cup {"list"} THEN issued[r] + 1 ELSE issued[r]]
    /\ UNCHANGED <<variant, fileReq, fileIssued, respData, repoDetails, listing,
                   fileContents, files, prompt, response, dockerfile, disk, log,
                   caught, cause, failedStage, diskAtStart, lastArtifact,
                   outOfOrder, writeFailed>>

\* main() calls fetchRepoDetails, which issues its requests and awaits them
main ==
    /\ pc = "init"
    /\ pc' = "fetchRepoDetails"
    /\ req' = [r \in Named |-> IF r \in DetailsGroup THEN "pending" ELSE req[r]]
    /\ issued' = [r \in Named |-> IF r \in DetailsGroup THEN issued[r] + 1 ELSE issued[r]]
    /\ UNCHANGED <<variant, fileReq, fileIssued, respData, repoDetails, listing,
                   fileContents, files, prompt, response, dockerfile, disk, log,
                   caught, cause, failedStage, diskAtStart, lastArtifact,
                   outOfOrder, writeFailed>>

\* The object fetchRepoDetails returns once every request of its group resolved
detailsOf(v, data) ==
    IF v = "ts"
    THEN [t |-> "object", name |-> data.meta.name,
          description |-> data.meta.description, url |-> data.meta.html_url,
          readme |-> data.readme]
    ELSE [t |-> "object", name |-> data.meta.name,
          description |-> data.meta.description, html_url |-> data.meta.html_url,
          readme |-> Undefined]

\* A request of fetchRepoDetails resolves.  When it was the last one awaited,
\* fetchRepoDetails returns and main calls listRepoFiles, which issues the
\* listing request.
DetailsOk(r, body) ==
    /\ r \in DetailsGroup
    /\ req[r] = "pending"
    /\ LET data == [respData EXCEPT ![r] = body]
           done == pc = "fetchRepoDetails"
                   /\ \A q \in DetailsGroup \ {r} : req[q] = "ok"
       IN  IF done
           THEN /\ respData' = data
                /\ repoDetails' = detailsOf(variant, data)
                /\ req' = [req EXCEPT ![r] = "ok", !["list"] = "pending"]
                /\ issued' = [issued EXCEPT !["list"] = @ + 1]
                /\ pc' = "listRepoFiles"
           ELSE /\ req' = [req EXCEPT ![r] = "ok"]
                /\ respData' = IF pc = "fetchRepoDetails" THEN data ELSE respData
                /\ UNCHANGED <<repoDetails, issued, pc>>
    /\ UNCHANGED <<variant, fileReq, fileIssued, listing, fileContents, files,
                   prompt, response, dockerfile, disk, log, caught, cause,
                   failedStage, diskAtStart, lastArtifact,
                   outOfOrder, writeFailed>>

\* What the catch clause of fetchRepoDetails prints for a failure c
detailsLog(v, c) ==
    IF v = "ts" THEN <<<<"Error fetching repository details:", c>>>>
    ELSE IF c \in {"404", "403", "500"}
         THEN <<<<"Error fetching repository details:", c>>,
                IF c = "404"
                THEN <<"Repository not found. Please check the repository URL.">>
                ELSE IF c = "403"
                THEN <<"Access denied. Please check your access token and permissions.">>
                ELSE <<"Unexpected error occurred:", "statusText">> >>
         ELSE IF c = "no response"
         THEN <<<<"No response received:", "request">>>>
         ELSE <<<<"Error setting up the request:", c>>>>

\* Variant of detailsError that rethrows the error it caught
detailsErrorRethrown(c) == ErrorObj(c)

\* The error fetchRepoDetails throws for a failure c
detailsError(c) == ErrorObj("Failed to fetch repository details")

\* Variant of DetailsFail whose catch clause prints and does not rethrow:
\* fetchRepoDetails returns undefined and main goes on to listRepoFiles
DetailsFailSwallowed(r, c) ==
    /\ r \in DetailsGroup
    /\ req[r] = "pending"
    /\ IF pc = "fetchRepoDetails"
       THEN /\ log' = log \o detailsLog(variant, c)
            /\ req' = [req EXCEPT ![r] = "fail", !["list"] = "pending"]
            /\ issued' = [issued EXCEPT !["list"] = @ + 1]
            /\ repoDetails' = [t |-> "object", name |-> Undefined,
                               description |-> Undefined, readme |-> Undefined]
            /\ pc' = "listRepoFiles"
       ELSE /\ req' = [req EXCEPT ![r] = "fail"]
            /\ UNCHANGED <<log, issued, repoDetails, pc>>
    /\ UNCHANGED <<variant, fileReq, fileIssued, respData, listing, fileContents,
                   files, prompt, response, dockerfile, disk, caught, cause,
                   failedStage, diskAtStart, lastArtifact, outOfOrder, writeFailed>>

\* A request of fetchRepoDetails rejects.  The first rejection rejects the
\* await; a later one finds nobody waiting.
DetailsFail(r, c) ==
    /\ r \in DetailsGroup
    /\ req[r] = "pending"
    /\ req' = [req EXCEPT ![r] = "fail"]
    /\ IF pc = "fetchRepoDetails"
       THEN Throw("fetchRepoDetails", c, detailsLog(variant, c), detailsError(c))
       ELSE UNCHANGED <<log, caught, cause, failedStage, pc>>
    /\ UNCHANGED <<variant, issued, fileReq, fileIssued, respData, repoDetails,
                   listing, fileContents, files, prompt, response, dockerfile,
                   disk, diskAtStart, lastArtifact,
                   outOfOrder, writeFailed>>

----------------------------------------------------------------------------
(* listRepoFiles *)

\* Variant of isFile that takes every entry for a file
isFileAny(entry) == TRUE

\* file.type === 'file'
isFile(entry) == entry.type = "file"

\* The object the mapper returns for a listing entry whose content arrived
fileRecord(entry, body) ==
    [t |-> "object", name |-> entry.name,
     content |-> IF body.t = "string" THEN body.v ELSE JSONstringify(body)]

\* Promise.all stores each result at the index of its promise
resolveSlot(fc, i, val) == [fc EXCEPT ![i] = val]

\* Promise.all resolved with fc: listRepoFiles returns the filtered array and
\* main calls generateDockerfile, which builds the prompt and issues the
\* completion request; rq is the state of the requests before that.
Generate(fc, rq) ==
    /\ files' = Arr(filterNotNull(fc))
    /\ prompt' = Str(buildPrompt(variant, repoDetails, filterNotNull(fc)))
    /\ req' = [rq EXCEPT !["completion"] = "pending"]
    /\ issued' = [issued EXCEPT !["completion"] = @ + 1]
    /\ pc' = "generateDockerfile"

\* The listing arrives: one content request is issued per entry of type file
ListingOk(entries) ==
    /\ pc = "listRepoFiles"
    /\ req["list"] = "pending"
    /\ listing' = Arr(entries)
    /\ fileReq' = [i \in 1..Len(entries) |->
                      IF isFile(entries[i]) THEN "pending" ELSE "idle"]
    /\ fileIssued' = [i \in 1..Len(entries) |-> IF isFile(entries[i]) THEN 1 ELSE 0]
    /\ LET fc == [i \in 1..Len(entries) |->
                     IF isFile(entries[i]) THEN Pending ELSE Null]
           rq == [req EXCEPT !["list"] = "ok"]
       IN  /\ fileContents' = fc
           /\ IF \A i \in 1..Len(entries) : fc[i] # Pending
              THEN Generate(fc, rq)
              ELSE /\ req' = rq
                   /\ UNCHANGED <<files, prompt, issued, pc>>
    /\ UNCHANGED <<variant, respData, repoDetails, response, dockerfile, disk,
                   log, caught, cause, failedStage, diskAtStart, lastArtifact,
                   outOfOrder, writeFailed>>

listError(c) == ErrorObj("Failed to list repository files")

\* The listing request resolves with a body that is no array: files.map throws
ListingMalformed ==
    /\ pc = "listRepoFiles"
    /\ req["list"] = "pending"
    /\ req' = [req EXCEPT !["list"] = "ok"]
    /\ Throw("listRepoFiles", "not an array",
             <<<<"Error listing repository files:", "files.map is not a function">>>>,
             listError("not an array"))
    /\ UNCHANGED <<variant, issued, fileReq, fileIssued, respData, repoDetails,
                   listing, fileContents, files, prompt, response, dockerfile,
                   disk, diskAtStart, lastArtifact,
                   outOfOrder, writeFailed>>

ListingFail(c) ==
    /\ pc = "listRepoFiles"
    /\ req["list"] = "pending"
    /\ req' = [req EXCEPT !["list"] = "fail"]
    /\ Throw("listRepoFiles", c, <<<<"Error listing repository files:", c>>>>,
             listError(c))
    /\ UNCHANGED <<variant, issued, fileReq, fileIssued, respData, repoDetails,
                   listing, fileContents, files, prompt, response, dockerfile,
                   disk, diskAtStart, lastArtifact,
                   outOfOrder, writeFailed>>

\* The content of entry i arrives.  When it was the last one Promise.all
\* waited for, listRepoFiles returns.
FileOk(i, body) ==
    /\ i \in 1..Len(fileReq)
    /\ fileReq[i] = "pending"
    /\ fileReq' = [fileReq EXCEPT ![i] = "ok"]
    /\ outOfOrder' = (outOfOrder \/ \E j \in 1..(i - 1) : fileReq[j] = "pending")
    /\ LET fc == resolveSlot(fileContents, i, fileRecord(listing.v[i], body))
       IN  /\ fileContents' = fc
           /\ IF /\ pc = "listRepoFiles"
                 /\ \A j \in 1..Len(fileReq) \ {i} : fileReq[j] # "pending"
              THEN Generate(fc, req)
              ELSE UNCHANGED <<files, prompt, req, issued, pc>>
    /\ UNCHANGED <<variant, fileIssued, respData, repoDetails, listing, response,
                   dockerfile, disk, log, caught, cause, failedStage, diskAtStart,
                   lastArtifact,
                   writeFailed>>

\* Variant of FileFail where the mapper catches the rejection and returns
\* null, so that the entry is skipped
FileFailSkipped(i, c) ==
    /\ i \in 1..Len(fileReq)
    /\ fileReq[i] = "pending"
    /\ fileReq' = [fileReq EXCEPT ![i] = "fail"]
    /\ outOfOrder' = (outOfOrder \/ \E j \in 1..(i - 1) : fileReq[j] = "pending")
    /\ LET fc == resolveSlot(fileContents, i, Null)
       IN  /\ fileContents' = fc
           /\ IF /\ pc = "listRepoFiles"
                 /\ \A j \in 1..Len(fileReq) \ {i} : fileReq[j] # "pending"
              THEN Generate(fc, req)
              ELSE UNCHANGED <<files, prompt, req, issued, pc>>
    /\ UNCHANGED <<variant, fileIssued, respData, repoDetails, listing, response,
                   dockerfile, disk, log, caught, cause, failedStage, diskAtStart,
                   lastArtifact, writeFailed>>

\* The content request of entry i rejects.  The first rejection rejects
\* Promise.all, whatever the other requests do.
FileFail(i, c) ==
    /\ i \in 1..Len(fileReq)
    /\ fileReq[i] = "pending"
    /\ fileReq' = [fileReq EXCEPT ![i] = "fail"]
    /\ outOfOrder' = (outOfOrder \/ \E j \in 1..(i - 1) : fileReq[j] = "pending")
    /\ IF pc = "listRepoFiles"
       THEN Throw("listRepoFiles", c, <<<<"Error listing repository files:", c>>>>,
                  listError(c))
       ELSE UNCHANGED <<log, caught, cause, failedStage, pc>>
    /\ UNCHANGED <<variant, req, issued, fileIssued, respData, repoDetails, listing,
                   fileContents, files, prompt, response, dockerfile, disk,
                   diskAtStart, lastArtifact,
                   writeFailed>>

----------------------------------------------------------------------------
(* generateDockerfile: the completion *)

\* response.choices && response.choices.length > 0 && response.choices[0].message
hasMessage(resp) ==
    /\ resp.choices.t = "array"
    /\ Len(resp.choices.v) > 0
    /\ resp.choices.v[1].message.t # "undefined"

\* response.choices[0].message.content?.trim()
trimmedContent(resp) ==
    LET c == resp.choices.v[1].message.content
    IN  IF c.t = "string" THEN Str(trim(c.v)) ELSE Undefined

\* Variant of truthy that only tests for a missing value
truthyDefined(x) == x.t \notin {"undefined", "null"}

\* if (dockerfile)
truthy(x) == x.t \notin {"undefined", "null"} /\ (x.t = "string" => x.v # <<>>)

generationError(c) == ErrorObj("Failed to generate Dockerfile")

\* The completion arrives.  A usable first choice is returned to main, which
\* prints it and calls writeDockerfile; anything else throws.
CompletionOk(resp) ==
    /\ pc = "generateDockerfile"
    /\ req["completion"] = "pending"
    /\ response' = resp
    /\ IF hasMessage(resp) /\ truthy(trimmedContent(resp))
       THEN /\ dockerfile' = trimmedContent(resp)
            /\ log' = Append(log, <<"Generated Dockerfile:">> \o trimmedContent(resp).v)
            /\ req' = [req EXCEPT !["completion"] = "ok", !["write"] = "pending"]
            /\ issued' = [issued EXCEPT !["write"] = @ + 1]
            /\ pc' = "writeDockerfile"
            /\ UNCHANGED <<caught, cause, failedStage>>
       ELSE LET msg == IF hasMessage(resp)
                       THEN "OpenAI API returned an empty message content."
                       ELSE "OpenAI API returned an empty response."
            IN  /\ Throw("generateDockerfile", msg,
                         <<<<msg>>, <<"Error generating Dockerfile:", msg>>>>,
                         generationError(msg))
                /\ req' = [req EXCEPT !["completion"] = "ok"]
                /\ UNCHANGED <<dockerfile, issued>>
    /\ UNCHANGED <<variant, fileReq, fileIssued, respData, repoDetails, listing,
                   fileContents, files, prompt, disk, diskAtStart, lastArtifact,
                   outOfOrder, writeFailed>>

\* Variant of CompletionFail that issues the request a second time before
\* giving up
CompletionFailRetried(c) ==
    /\ pc = "generateDockerfile"
    /\ req["completion"] = "pending"
    /\ IF issued["completion"] < 2
       THEN /\ issued' = [issued EXCEPT !["completion"] = @ + 1]
            /\ UNCHANGED <<req, log, caught, cause, failedStage, pc>>
       ELSE /\ req' = [req EXCEPT !["completion"] = "fail"]
            /\ Throw("generateDockerfile", c,
                     <<<<"Error generating Dockerfile:", c>>>>,
                     ErrorObj("Failed to generate Dockerfile"))
            /\ UNCHANGED issued
    /\ UNCHANGED <<variant, fileReq, fileIssued, respData, repoDetails, listing,
                   fileContents, files, prompt, response, dockerfile, disk,
                   diskAtStart, lastArtifact, outOfOrder, writeFailed>>

\* The completion call itself rejects
CompletionFail(c) ==
    /\ pc = "generateDockerfile"
    /\ req["completion"] = "pending"
    /\ req' = [req EXCEPT !["completion"] = "fail"]
    /\ Throw("generateDockerfile", c, <<<<"Error generating Dockerfile:", c>>>>,
             generationError(c))
    /\ UNCHANGED <<variant, issued, fileReq, fileIssued, respData, repoDetails,
                   listing, fileContents, files, prompt, response, dockerfile,
                   disk, diskAtStart, lastArtifact,
                   outOfOrder, writeFailed>>

----------------------------------------------------------------------------
(* writeDockerfile *)

\* Variant of writeFile that opens the file for appending
writeFileAppend(old, data) ==
    IF old.t = "string" THEN Str(old.v \o data.v) ELSE data

\* fs.writeFile(filePath, dockerfile) that succeeded: the file holds the data
writeFile(old, data) == data

\* reject(err): the filesystem error itself
writeError(c) == ErrorObj(c)

WriteOk ==
    /\ pc = "writeDockerfile"
    /\ req["write"] = "pending"
    /\ req' = [req EXCEPT !["write"] = "ok"]
    /\ disk' = writeFile(disk, dockerfile)
    /\ log' = Append(log, <<"Dockerfile has been written to disk.">>)
    /\ lastArtifact' = dockerfile
    /\ writeFailed' = FALSE
    /\ pc' = "success"
    /\ UNCHANGED <<variant, issued, fileReq, fileIssued, respData, repoDetails,
                   listing, fileContents, files, prompt, response, dockerfile,
                   caught, cause, failedStage, diskAtStart,
                   outOfOrder>>

WriteFail(c, left) ==
    /\ pc = "writeDockerfile"
    /\ req["write"] = "pending"
    /\ left \in FailedWriteLeaves(c, disk, dockerfile.v)
    /\ req' = [req EXCEPT !["write"] = "fail"]
    /\ disk' = left
    /\ writeFailed' = TRUE
    /\ Throw("writeDockerfile", c, <<<<"Error writing Dockerfile to disk:", c>>>>,
             writeError(c))
    /\ UNCHANGED <<variant, issued, fileReq, fileIssued, respData, repoDetails,
                   listing, fileContents, files, prompt, response, dockerfile,
                   diskAtStart, lastArtifact,
                   outOfOrder>>

----------------------------------------------------------------------------
(* The program is run again *)

\* The process has ended (main settled, no request is outstanding) and the
\* program is started again; only ./Dockerfile survives.
Rerun ==
    /\ pc \in Terminal
    /\ \A r \in Named : req[r] # "pending"
    /\ \A i \in 1..Len(fileReq) : fileReq[i] # "pending"
    /\ pc' = "init"
    /\ req' = [r \in Named |-> "idle"]
    /\ issued' = [r \in Named |-> 0]
    /\ fileReq' = <<>>
    /\ fileIssued' = <<>>
    /\ respData' = [meta |-> Undefined, readme |-> Undefined]
    /\ repoDetails' = Undefined
    /\ listing' = Undefined
    /\ fileContents' = <<>>
    /\ files' = Undefined
    /\ prompt' = Undefined
    /\ response' = Undefined
    /\ dockerfile' = Undefined
    /\ log' = <<>>
    /\ caught' = Undefined
    /\ cause' = "none"
    /\ failedStage' = "none"
    /\ diskAtStart' = disk
    /\ outOfOrder' = FALSE
    /\ UNCHANGED <<variant, disk, lastArtifact, writeFailed>>

----------------------------------------------------------------------------
(* Specifications *)

SettleMeta ==
    (\E b \in RepoBodies : DetailsOk("meta", b)) \/ (\E c \in HttpCauses : DetailsFail("meta", c))

SettleReadme ==
    (\E b \in ReadmeBodies : DetailsOk("readme", b))
    \/ (\E c \in FetchCauses : DetailsFail("readme", c))

SettleListing ==
    (\E l \in Listings : ListingOk(l)) \/ ListingMalformed
    \/ (\E c \in FetchCauses : ListingFail(c))

SettleFile(i) ==
    (\E b \in FileBodies : FileOk(i, b)) \/ (\E c \in FetchCauses : FileFail(i, c))

SettleCompletion ==
    (\E r \in Completions : CompletionOk(r)) \/ (\E c \in ProviderCauses : CompletionFail(c))

SettleWrite ==
    WriteOk
    \/ (/\ pc = "writeDockerfile"
        /\ \E c \in WriteCauses : \E left \in FailedWriteLeaves(c, disk, dockerfile.v) :
              WriteFail(c, left))

Next ==
    \/ main
    \/ SettleMeta
    \/ SettleReadme
    \/ SettleListing
    \/ \E i \in 1..MaxEntries : SettleFile(i)
    \/ SettleCompletion
    \/ SettleWrite
    \/ Rerun

Spec == Init /\ [][Next]_vars

\* One run of the program, started with ./Dockerfile absent or left by an
\* earlier run
InitRun ==
    /\ variant \in {"ts", "js"}
    /\ lastArtifact = Undefined
    /\ writeFailed = FALSE
    /\ \E d \in {NoFile, Str(<<"F", " ", "G">>)} : FreshRun(d)

NextRun ==
    \/ main
    \/ SettleMeta
    \/ SettleReadme
    \/ SettleListing
    \/ \E i \in 1..MaxEntries : SettleFile(i)
    \/ SettleCompletion
    \/ SettleWrite

\* main() is called when the module is loaded, and every issued request and
\* the file write eventually settle
FairSpec ==
    /\ InitRun
    /\ [][NextRun]_vars
    /\ WF_vars(main)
    /\ WF_vars(SettleMeta)
    /\ WF_vars(SettleReadme)
    /\ WF_vars(SettleListing)
    /\ \A i \in 1..MaxEntries : WF_vars(SettleFile(i))
    /\ WF_vars(SettleCompletion)
    /\ WF_vars(SettleWrite)

----------------------------------------------------------------------------
(* Vocabulary of the properties *)

\* The indices of the listing entries whose type is "file"
FileIndices(l) == { i \in 1..Len(l) : l[i].type = "file" }

\* The index of the k-th "file" entry of the listing
KthFile(l, k) ==
    CHOOSE i \in FileIndices(l) : Cardinality({ j \in FileIndices(l) : j <= i }) = k

\* listRepoFiles has returned to main
FilesReturned == files.t = "array"

AnyFileFailed == \E i \in 1..Len(fileReq) : fileReq[i] = "fail"

AnyFetchPending ==
    \/ \E r \in {"meta", "readme", "list"} : req[r] = "pending"
    \/ \E i \in 1..Len(fileReq) : fileReq[i] = "pending"

NoFileRequestIssued == \A i \in 1..Len(fileIssued) : fileIssued[i] = 0

\* How many times main's catch clause printed its summary
SummaryCount ==
    Cardinality({ k \in 1..Len(log) : log[k][1] = "An error occurred:" })

\* The first choice of the completion carries no usable text: no choices, no
\* message, no string content, or nothing but whitespace
NoUsableText(resp) ==
    \/ resp.choices.t # "array"
    \/ resp.choices.v = <<>>
    \/ resp.choices.v[1].message.t = "undefined"
    \/ resp.choices.v[1].message.content.t # "string"
    \/ \A k \in 1..Len(resp.choices.v[1].message.content.v) :
          resp.choices.v[1].message.content.v[k] \in Whitespace

----------------------------------------------------------------------------
(* C1 *)

\* C1: once the listing and every content request have succeeded,
\* listRepoFiles has returned, and its result has exactly one element per
\* listing entry of type "file", the k-th element carrying the name of the
\* k-th such entry and the content its own request delivered, whatever the
\* order in which the content requests completed; no entry of another type
\* appears in it.
C1_FilesFollowListing ==
    /\ (listing # Undefined /\ \A i \in 1..Len(fileReq) : fileReq[i] \in {"ok", "idle"})
          => FilesReturned
    /\ FilesReturned =>
          LET l == listing.v
              f == files.v
          IN  /\ Len(f) = Cardinality(FileIndices(l))
              /\ \A k \in 1..Len(f) :
                    /\ f[k].name = l[KthFile(l, k)].name
                    /\ f[k] = fileContents[KthFile(l, k)]
              /\ \A k \in 1..Len(f) : \A i \in 1..Len(l) :
                    l[i].type # "file" => f[k].name # l[i].name

\* A listing with an entry that is no file and at least two files, the content
\* of a later file arriving before that of an earlier one
C1_Witness ==
    /\ FilesReturned
    /\ outOfOrder
    /\ Len(listing.v) > Len(files.v)
    /\ Len(files.v) >= 2

----------------------------------------------------------------------------
(* C2 *)

\* C2: when the metadata request or the README request has failed,
\* fetchRepoDetails has failed with its error and, in that run, no listing
\* request and no content request was issued, no prompt was built, no
\* completion was requested and no write was started.
C2_DetailsFailureStopsRun ==
    (req["meta"] = "fail" \/ req["readme"] = "fail") =>
        /\ pc = "failure"
        /\ failedStage = "fetchRepoDetails"
        /\ caught = ErrorObj("Failed to fetch repository details")
        /\ issued["list"] = 0
        /\ fileIssued = <<>>
        /\ prompt = Undefined
        /\ issued["completion"] = 0
        /\ issued["write"] = 0
        /\ disk = diskAtStart

\* The README request failed although the metadata request succeeded
C2_Witness ==
    /\ variant = "ts"
    /\ req["readme"] = "fail"
    /\ req["meta"] = "ok"
    /\ pc = "failure"

----------------------------------------------------------------------------
(* C3 *)

\* C3: when the completion that arrived has no choices, or its first choice
\* has no text or only whitespace, generateDockerfile has thrown its error, no
\* write was started and ./Dockerfile holds what it held when the run began.
C3_EmptyCompletionWritesNothing ==
    (response # Undefined /\ NoUsableText(response)) =>
        /\ pc = "failure"
        /\ failedStage = "generateDockerfile"
        /\ caught = ErrorObj("Failed to generate Dockerfile")
        /\ dockerfile = Undefined
        /\ issued["write"] = 0
        /\ req["write"] = "idle"
        /\ disk = diskAtStart

\* A whitespace-only first choice arrives in a run that found an earlier
\* run's Dockerfile on disk
C3_Witness ==
    /\ response # Undefined
    /\ response.choices.t = "array"
    /\ response.choices.v # <<>>
    /\ response.choices.v[1].message.t # "undefined"
    /\ response.choices.v[1].message.content.t = "string"
    /\ response.choices.v[1].message.content.v # <<>>
    /\ NoUsableText(response)
    /\ pc = "failure"
    /\ disk.t = "string"

----------------------------------------------------------------------------
(* C4 *)

\* C4: the stages run one after the other: the listing is requested only once
\* the metadata (and README) arrived, contents only once the listing arrived,
\* the prompt is built and the completion requested only once every fetch
\* request has succeeded, and the write starts only once the completion has
\* returned its text; no completion is outstanding while a fetch request is,
\* and no write while a fetch or the completion is.
C4_StagesInOrder ==
    /\ issued["list"] > 0 =>
          /\ \A r \in DetailsGroup : req[r] = "ok"
          /\ repoDetails # Undefined
    /\ ~NoFileRequestIssued => req["list"] = "ok"
    /\ (prompt # Undefined \/ issued["completion"] > 0) =>
          /\ issued["completion"] > 0
          /\ prompt # Undefined
          /\ FilesReturned
          /\ req["list"] = "ok"
          /\ \A i \in 1..Len(fileReq) : fileReq[i] = (IF fileIssued[i] > 0 THEN "ok" ELSE "idle")
          /\ ~AnyFetchPending
    /\ issued["write"] > 0 =>
          /\ req["completion"] = "ok"
          /\ dockerfile # Undefined
    /\ req["write"] = "pending" => req["completion"] # "pending" /\ ~AnyFetchPending

\* The write is under way after two files were fetched
C4_Witness ==
    /\ pc = "writeDockerfile"
    /\ req["write"] = "pending"
    /\ FilesReturned
    /\ Len(files.v) >= 2

----------------------------------------------------------------------------
(* C5 *)

\* C5: when a content request has failed, listRepoFiles has failed with its
\* one error whatever the other content requests did and in whatever order:
\* main received no file sequence, printed one summary, and built no prompt,
\* requested no completion and started no write.
C5_OneFailureFailsTheCall ==
    AnyFileFailed =>
        /\ pc = "failure"
        /\ failedStage = "listRepoFiles"
        /\ caught = ErrorObj("Failed to list repository files")
        /\ SummaryCount = 1
        /\ files = Undefined
        /\ prompt = Undefined
        /\ issued["completion"] = 0
        /\ issued["write"] = 0
        /\ disk = diskAtStart

\* One content request failed and another delivered its content
C5_Witness ==
    /\ AnyFileFailed
    /\ \E i \in 1..Len(fileReq) :
          fileReq[i] = "ok" /\ fileContents[i].t = "object"
    /\ \A i \in 1..Len(fileReq) : fileReq[i] # "pending"

----------------------------------------------------------------------------
(* C6 *)

\* d is c without its leading and trailing whitespace, and is not empty
IsTrimmedFrom(d, c) ==
    \E i \in 1..Len(c) : \E j \in i..Len(c) :
        /\ d = SubSeq(c, i, j)
        /\ c[i] \notin Whitespace
        /\ c[j] \notin Whitespace
        /\ \A k \in 1..(i - 1) : c[k] \in Whitespace
        /\ \A k \in (j + 1)..Len(c) : c[k] \in Whitespace

IsProperPrefix(p, d) == Len(p) < Len(d) /\ p = SubSeq(d, 1, Len(p))

FirstChoiceText == response.choices.v[1].message.content.v

\* A successful run leaves in ./Dockerfile exactly the trimmed text of the
\* first choice of its completion
SuccessWritesArtifact ==
    pc = "success" =>
        /\ disk.t = "string"
        /\ IsTrimmedFrom(disk.v, FirstChoiceText)
        /\ disk = dockerfile
        /\ lastArtifact = dockerfile

\* C6 as stated: whenever a run has ended, ./Dockerfile holds exactly the
\* artifact of the most recent successful run, whatever the later runs did.
C6_Original ==
    /\ SuccessWritesArtifact
    /\ (pc \in Terminal /\ lastArtifact # Undefined) => disk = lastArtifact

\* C6 amended: as long as no write has failed since the most recent successful
\* run, ./Dockerfile holds exactly the artifact of that run (the trimmed first
\* choice, nothing added, removed or trimmed again) and nothing of earlier
\* content; a run whose write fails leaves the file as it was or holding a
\* proper prefix of that run's artifact.
C6_Amended ==
    /\ SuccessWritesArtifact
    /\ (lastArtifact # Undefined /\ ~writeFailed) => disk = lastArtifact
    /\ (pc = "failure" /\ failedStage = "writeDockerfile") =>
          \/ disk = diskAtStart
          \/ disk.t = "string" /\ IsProperPrefix(disk.v, dockerfile.v)

\* A successful run replaced what an earlier run had left with a text the
\* completion had wrapped in whitespace
C6_Witness ==
    /\ pc = "success"
    /\ diskAtStart.t = "string"
    /\ diskAtStart # disk
    /\ FirstChoiceText # disk.v

----------------------------------------------------------------------------
(* C7 *)

Contains(p, s) == \E i \in 0..(Len(p) - Len(s)) : SubSeq(p, i + 1, i + Len(s)) = s

\* Position in the prompt of the element that opens the file section
FilesStart(p) == CHOOSE i \in 1..Len(p) : p[i] = PromptFiles

\* Length of the line of a file: name, ": ", at most SubstringLimit characters
LineLen(f) == Len(f.name) + 2 + Min(SubstringLimit, Len(f.content))

RECURSIVE LineOffset(_, _)
\* Where the line of the k-th file starts within the file section
LineOffset(f, k) ==
    IF k = 1 THEN 0 ELSE LineOffset(f, k - 1) + LineLen(f[k - 1]) + 1

\* C7: the prompt contains the repository name and, when they are strings,
\* the description and the README text verbatim; its file section holds, for
\* each fetched file in sequence order, the name, ": " and the first
\* min(200, length) characters of the content, the lines separated by
\* newlines and the last one followed by the closing instruction, so that no
\* further character of any content appears.
C7_PromptContents ==
    prompt # Undefined =>
        LET p == prompt.v
            f == files.v
            s == FilesStart(p)
        IN  /\ Contains(p, repoDetails.name.v)
            /\ repoDetails.description.t = "string" =>
                  Contains(p, repoDetails.description.v)
            /\ repoDetails.readme.t = "string" => Contains(p, repoDetails.readme.v)
            /\ \A k \in 1..Len(f) :
                  LET o == s + LineOffset(f, k)
                      n == Len(f[k].name)
                      m == Min(SubstringLimit, Len(f[k].content))
                  IN  /\ SubSeq(p, o + 1, o + n) = f[k].name
                      /\ p[o + n + 1] = ":"
                      /\ p[o + n + 2] = " "
                      /\ SubSeq(p, o + n + 3, o + n + 2 + m) = SubSeq(f[k].content, 1, m)
                      /\ p[o + n + 3 + m] = (IF k < Len(f) THEN "\n" ELSE PromptTail(variant))
            /\ Len(p) = (IF f = <<>> THEN s + 1
                         ELSE s + LineOffset(f, Len(f)) + LineLen(f[Len(f)]) + 1)
            /\ p[Len(p)] = PromptTail(variant)

\* A prompt for a described repository with a README and at least two files,
\* one longer and one shorter than the limit
C7_Witness ==
    /\ prompt # Undefined
    /\ repoDetails.description.t = "string"
    /\ repoDetails.readme.t = "string"
    /\ Len(files.v) >= 2
    /\ \E k \in 1..Len(files.v) : Len(files.v[k].content) > SubstringLimit
    /\ \E k \in 1..Len(files.v) : Len(files.v[k].content) < SubstringLimit

----------------------------------------------------------------------------
(* C8 *)

Causes ==
    HttpCauses \cup FetchCauses \cup ProviderCauses \cup WriteCauses
    \cup {"not an array", "OpenAI API returned an empty message content.",
          "OpenAI API returned an empty response."}

\* C8 as stated: the error main catches from any stage, the write included,
\* is that stage's own error and tells nothing of the underlying cause.
C8_Original ==
    caught # Undefined =>
        /\ caught.t = "error"
        /\ caught.message # cause
        /\ caught.message \notin Causes

\* C8 amended: whatever the underlying cause, the error main catches from
\* fetchRepoDetails is 'Failed to fetch repository details', from
\* listRepoFiles 'Failed to list repository files' and from
\* generateDockerfile 'Failed to generate Dockerfile'; writeDockerfile does not
\* wrap: main catches the filesystem error itself, which tells the cause.
C8_Amended ==
    caught # Undefined =>
        /\ cause \in Causes
        /\ failedStage = "fetchRepoDetails" =>
              caught = ErrorObj("Failed to fetch repository details")
        /\ failedStage = "listRepoFiles" =>
              caught = ErrorObj("Failed to list repository files")
        /\ failedStage = "generateDockerfile" =>
              caught = ErrorObj("Failed to generate Dockerfile")
        /\ failedStage = "writeDockerfile" =>
              caught = ErrorObj(cause) /\ cause \in WriteCauses
        /\ failedStage \in {"fetchRepoDetails", "listRepoFiles",
                            "generateDockerfile", "writeDockerfile"}

\* The write failed for lack of space and main caught that very error
C8_Witness ==
    /\ pc = "failure"
    /\ failedStage = "writeDockerfile"
    /\ cause = "ENOSPC"
    /\ caught.message = "ENOSPC"

----------------------------------------------------------------------------
(* C9 *)

AnyFailed ==
    \/ \E r \in Named : req[r] = "fail"
    \/ AnyFileFailed

\* C9: in a run every request is issued at most once, and once a request has
\* failed the run has ended in failure with nothing of a later stage issued.
C9_NoRetry ==
    /\ \A r \in Named : issued[r] <= 1
    /\ \A i \in 1..Len(fileIssued) : fileIssued[i] <= 1
    /\ AnyFailed => pc = "failure"
    /\ (req["meta"] = "fail" \/ req["readme"] = "fail") =>
          /\ issued["list"] = 0
          /\ fileIssued = <<>>
          /\ issued["completion"] = 0
          /\ issued["write"] = 0
    /\ req["list"] = "fail" =>
          fileIssued = <<>> /\ issued["completion"] = 0 /\ issued["write"] = 0
    /\ AnyFileFailed => issued["completion"] = 0 /\ issued["write"] = 0
    /\ req["completion"] = "fail" => issued["write"] = 0

\* The completion request failed after two files had been fetched
C9_Witness ==
    /\ req["completion"] = "fail"
    /\ issued["completion"] = 1
    /\ FilesReturned
    /\ Len(files.v) >= 2
    /\ pc = "failure"

----------------------------------------------------------------------------
(* C10 *)

\* main has returned normally after printing the artifact and the success line
EndedInSuccess ==
    pc = "success" =>
        /\ disk = dockerfile
        /\ caught = Undefined
        /\ SummaryCount = 0
        /\ log[Len(log)] = <<"Dockerfile has been written to disk.">>

\* main has returned normally after its catch clause printed one summary
EndedInFailure ==
    pc = "failure" =>
        /\ caught # Undefined
        /\ SummaryCount = 1
        /\ log[Len(log)] = <<"An error occurred:", caught.message>>
        /\ dockerfile = Undefined \/ failedStage = "writeDockerfile"

\* C10 as stated: every run ends in success or in failure, main never
\* rejects, one summary is printed on failure, and a failed run has written
\* nothing.
C10_Original ==
    /\ (pc \notin Terminal) ~> (pc \in {"success", "failure"})
    /\ [](pc # "rejected")
    /\ [][(pc \in Terminal) => (pc' = pc)]_vars
    /\ [](EndedInSuccess /\ EndedInFailure)
    /\ [](pc = "failure" => disk = diskAtStart)

\* C10 amended: every run ends in success (artifact written) or in failure
\* (error caught at the top level, exactly one summary printed), and main
\* never rejects; a run that failed before the write left ./Dockerfile as it
\* was, while a run that failed in the write may have truncated it.
C10_Amended ==
    /\ (pc \notin Terminal) ~> (pc \in {"success", "failure"})
    /\ [](pc # "rejected")
    /\ [][(pc \in Terminal) => (pc' = pc)]_vars
    /\ [](EndedInSuccess /\ EndedInFailure)
    /\ []((pc = "failure" /\ failedStage # "writeDockerfile") =>
             disk = diskAtStart /\ issued["write"] = 0)

\* A run over an existing Dockerfile ended in failure in the write
C10_Witness ==
    /\ pc = "failure"
    /\ failedStage = "writeDockerfile"
    /\ diskAtStart.t = "string"
    /\ SummaryCount = 1

====
